---- MODULE Spec2Model ----
(***************************************************************************)
(* A model of the Modbus TCP client of modbus.go: the connection pool      *)
(* (NewConnectionPool, Get, Put, Close) and the request/response exchange  *)
(* of one Client (sendRequest).                                            *)
(*                                                                         *)
(* The specifications share the variables:                                 *)
(*   CtorSpec     NewConnectionPool alone, from its call to its return;    *)
(*   PoolSpec     a constructed pool used by concurrent goroutines;        *)
(*   SessionSpec  one Client whose sendRequest is called concurrently;     *)
(*   OpSpec       one operation of a Client, from its call to its return;  *)
(*   BatchSpec    one call of ExecuteBatch;                                *)
(*   SharedSpec   ExecuteBatch on a Client other goroutines use as well;   *)
(*   CoilSpec     the packing and unpacking of coil arrays;                *)
(*   MisuseSpec   PoolSpec with callers that release wrongly;              *)
(*   SessionLiveSpec  sendRequest under fair scheduling.                   *)
(***************************************************************************)
EXTENDS Integers, Sequences, FiniteSets, TLC

(***************************************************************************)
(* Bounds of the model.                                                    *)
(***************************************************************************)
\* largest maxConnections argument tried (besides the values <= 0)
MaxConn == 2
\* goroutines that use the pool
NumCallers == 3
\* goroutines that call sendRequest on the one Client, once each
NumTasks == 2
\* Puts in one behaviour of a Client the caller does not hold
MaxMisuse == 1

(***************************************************************************)
(* Program constants.                                                      *)
(***************************************************************************)
\* maxConnections <= 0 is replaced by 10
DefaultMaxConn == 10
\* timeout == 0 is replaced by 5 * time.Second (in seconds here)
DefaultTimeout == 5
\* transactionID is a uint16
TwoPow16 == 65536
\* the MBAP header has 7 bytes
HeaderLen == 7

\* the nil *Client
NoClient == 0
\* a Client made by NewClient outside the pool
ForeignClient == -1

VARIABLES
    \* ---- ConnectionPool ----
    maxConn,      \* p.maxConn = cap(p.pool); 0 before construction
    timeout,      \* p.timeout
    pool,         \* the buffered channel p.pool: the queued *Client, oldest first
    chanClosed,   \* close(p.pool) has run
    connClosed,   \* the Clients whose conn.Close() has run
    opened,       \* the Clients NewClient has returned to the constructor: 1..opened
    ctorPC,       \* NewConnectionPool: "start", "loop", "returned", "failed"
    ctorArgs,     \* the arguments of NewConnectionPool
    \* ---- the goroutines using the pool ----
    pc,           \* per caller: "idle", or "get" while parked in Get's select
    held,         \* per caller: the Client it got from Get and has not put back
    stale,        \* per caller: the Client it put back last (the pointer it still has)
    res,          \* per caller: what its last Get returned
    closePC,      \* the goroutine calling p.Close(): "idle", "drain"
    panicked,     \* a run-time panic has ended the process
    \* ---- history, for the statements only ----
    misused,      \* the Puts so far of a Client the caller did not hold
    closeSnap,    \* the queue when the running (or last) Close began
    \* ---- one Client ----
    transactionID, \* c.transactionID, a uint16
    mutex,        \* c.mutex: the goroutine that has locked it, or NoTask
    connOpen,     \* c.conn has not been closed
    rx,           \* the bytes the peer has sent and the Client has not read yet
    pending,      \* the requests written that the peer has not answered yet
    \* ---- the goroutines calling sendRequest ----
    spc,          \* per task: "idle", "lock", "locked", "sent", "header", "done"
    args,         \* per task: slaveID and pdu of its call
    request,      \* per task: the bytes built at lines 88-95
    dataLength,   \* per task: the local dataLength of line 126
    respID,       \* per task: the local respTransactionID of line 119, or -1
    \* ---- history, for the statements only ----
    startID,      \* transactionID when the behaviour began
    started,      \* the tasks in the order their exchanges took the mutex
    completed,    \* the tasks in the order their exchanges returned
    returned,     \* the last return of sendRequest: who, what, ids written and read
    \* ---- the goroutine calling the operations of the Client ----
    op,           \* the operation it is in, or the last one it called
    opc,          \* "idle", "exchange" (inside sendRequest), "returned", "panic"
    opres,        \* what the operation returned
    response,     \* response, err := c.sendRequest(...) of the operation
    \* ---- ExecuteBatch, called by the same goroutine ----
    operations,   \* the argument of ExecuteBatch
    bpc,          \* "idle", "loop", "returned"
    bi,           \* the index the loop of line 392 is at, from 1
    results,      \* results[0 .. bi-1] as far as the loop has stored them
    \* ---- the conversion loops of WriteMultipleCoils and ReadCoils alone ----
    coils,        \* a []bool, as 0 and 1
    packed,       \* what lines 306-322 make of coils: the bytes, or a panic
    unpacked,     \* what lines 160-177 make of packed: the []bool, an error, a panic
    cpc           \* "idle", "pack", "unpack", "done"

poolVars == <<maxConn, timeout, pool, chanClosed, connClosed, opened, ctorPC,
              ctorArgs, pc, held, stale, res, closePC, panicked, misused,
              closeSnap>>

sessVars == <<transactionID, mutex, connOpen, rx, pending, spc, args, request,
              dataLength, respID, startID, started, completed, returned,
              response, op, opc, opres, operations, bpc, bi, results,
              coils, packed, unpacked, cpc>>

coilVars == <<coils, packed, unpacked, cpc>>

opVars == <<op, opc, opres, operations, bpc, bi, results, coilVars>>

vars == <<poolVars, sessVars>>

Callers == 1..NumCallers

Range(q) == {q[i] : i \in 1..Len(q)}

(***************************************************************************)
(* NewConnectionPool                                                       *)
(***************************************************************************)
\* if maxConnections <= 0 { maxConnections = 10 }
EffectiveMaxConn(m) == IF m <= 0 THEN DefaultMaxConn ELSE m

\* if timeout == 0 { timeout = 5 * time.Second }
EffectiveTimeout(t) == IF t = 0 THEN DefaultTimeout ELSE t

\* the arguments tried: maxConnections and timeout (seconds)
CtorInputs == [maxConnections : (-1..MaxConn), timeout : {0, 1}]

Tasks == 1..NumTasks

\* the goroutine that calls the operations
OpTask == 1

\* no goroutine, the unlocked mutex
NoTask == 0

\* the return value of a call that has not returned
NoResult == [kind |-> "none", err |-> "", len |-> 0, bytes |-> <<>>, fc |-> 0, ec |-> 0]

\* the record of the last return when nothing has returned
NoReturn == [task |-> NoTask, r |-> NoResult, sent |-> -1, seen |-> -1]

\* the arguments and locals of a goroutine that is not inside sendRequest
NoArgs == [slaveID |-> 0, pdu |-> <<>>]

\* nobody calls an operation or ExecuteBatch
NoCaller ==
    /\ op = [kind |-> "none"]
    /\ opc = "idle"
    /\ opres = [kind |-> "none"]
    /\ response = [kind |-> "none"]
    /\ operations = <<>>
    /\ bpc = "idle"
    /\ bi = 0
    /\ results = <<>>
    /\ coils = <<>> /\ cpc = "idle"
    /\ packed = [kind |-> "none"] /\ unpacked = [kind |-> "none"]

\* a Client nobody uses: the part of the state the pool does not touch
NoSession ==
    /\ transactionID = 0
    /\ mutex = NoTask
    /\ connOpen = TRUE
    /\ rx = <<>>
    /\ pending = 0
    /\ spc = [t \in Tasks |-> "idle"]
    /\ args = [t \in Tasks |-> NoArgs]
    /\ request = [t \in Tasks |-> <<>>]
    /\ dataLength = [t \in Tasks |-> 0]
    /\ respID = [t \in Tasks |-> -1]
    /\ startID = 0
    /\ started = <<>>
    /\ completed = <<>>
    /\ returned = NoReturn
    /\ NoCaller

\* the state before NewConnectionPool is called
NoPool ==
    /\ maxConn = 0
    /\ timeout = 0
    /\ pool = <<>>
    /\ chanClosed = FALSE
    /\ connClosed = {}
    /\ opened = 0
    /\ ctorPC = "start"
    /\ ctorArgs = [maxConnections |-> 0, timeout |-> 0]

\* nobody uses the pool yet
CallersIdle ==
    /\ pc = [c \in Callers |-> "idle"]
    /\ held = [c \in Callers |-> NoClient]
    /\ stale = [c \in Callers |-> NoClient]
    /\ res = [c \in Callers |-> "none"]
    /\ closePC = "idle"
    /\ panicked = FALSE
    /\ misused = 0
    /\ closeSnap = <<>>

callerVars == <<pc, held, stale, res, closePC, panicked, misused, closeSnap>>

\* lines 444-457: the arguments are normalised and the channel is made
CtorBegin(a) ==
    /\ ctorPC = "start"
    /\ ctorArgs' = a
    /\ maxConn' = EffectiveMaxConn(a.maxConnections)
    /\ timeout' = EffectiveTimeout(a.timeout)
    /\ pool' = <<>>
    /\ chanClosed' = FALSE
    /\ ctorPC' = "loop"
    /\ UNCHANGED <<connClosed, opened>>

\* lines 460-470, NewClient succeeds: the new Client is sent to the channel
CtorDialOk ==
    /\ ctorPC = "loop"
    /\ opened < maxConn
    /\ opened' = opened + 1
    /\ pool' = Append(pool, opened + 1)
    /\ UNCHANGED <<maxConn, timeout, chanClosed, connClosed, ctorPC, ctorArgs>>

\* a constructor that returns the error without pool.Close()
CtorDialFailLeaks ==
    /\ ctorPC = "loop"
    /\ opened < maxConn
    /\ ctorPC' = "failed"
    /\ UNCHANGED <<maxConn, timeout, pool, chanClosed, connClosed, opened, ctorArgs>>

\* lines 465-469, NewClient fails: pool.Close() closes the channel and every
\* queued Client, and the constructor returns nil and the error
CtorDialFail ==
    /\ ctorPC = "loop"
    /\ opened < maxConn
    /\ chanClosed' = TRUE
    /\ connClosed' = connClosed \cup Range(pool)
    /\ pool' = <<>>
    /\ ctorPC' = "failed"
    /\ UNCHANGED <<maxConn, timeout, opened, ctorArgs>>

\* line 473: the loop is over, the pool is returned
CtorReturn ==
    /\ ctorPC = "loop"
    /\ opened = maxConn
    /\ ctorPC' = "returned"
    /\ UNCHANGED <<maxConn, timeout, pool, chanClosed, connClosed, opened, ctorArgs>>

CtorInit == NoPool /\ CallersIdle /\ NoSession

CtorNext ==
    \/ \E a \in CtorInputs : CtorBegin(a) /\ UNCHANGED <<callerVars, sessVars>>
    \/ CtorDialOk /\ UNCHANGED <<callerVars, sessVars>>
    \/ CtorDialFail /\ UNCHANGED <<callerVars, sessVars>>
    \/ CtorReturn /\ UNCHANGED <<callerVars, sessVars>>

CtorSpec == CtorInit /\ [][CtorNext]_vars

(***************************************************************************)
(* Get, Put and Close of a constructed pool                                *)
(***************************************************************************)
\* the pool NewConnectionPool(address, n, 0) returns: n Clients queued
Constructed(n) ==
    /\ maxConn = EffectiveMaxConn(n)
    /\ timeout = EffectiveTimeout(0)
    /\ pool = [i \in 1..EffectiveMaxConn(n) |-> i]
    /\ chanClosed = FALSE
    /\ connClosed = {}
    /\ opened = EffectiveMaxConn(n)
    /\ ctorPC = "returned"
    /\ ctorArgs = [maxConnections |-> n, timeout |-> 0]

ctorVars == <<maxConn, timeout, opened, ctorPC, ctorArgs>>

\* a receive that leaves the Client in the buffer
ChanRecvKeeps(q) == q

\* case client := <-p.pool: the receive takes the oldest queued Client
ChanRecv(q) == Tail(q)

\* the Client the receive delivers
ChanRecvValue(q) == Head(q)

\* a send that finds the buffer full one Client early
ChanHasRoomOneEarly(q, cap) == Len(q) < cap - 1

\* case p.pool <- client: the send is possible while the buffer has room
ChanHasRoom(q, cap) == Len(q) < cap

\* client, err := pool.Get() overwrites the caller's variable: the pointer of
\* the Client it put back before is gone
\* lines 478-480, a Client is queued when Get is called: it is returned at once
GetNow(c) ==
    /\ ~panicked
    /\ UNCHANGED sessVars
    /\ pc[c] = "idle" /\ held[c] = NoClient
    /\ pool # <<>>
    /\ held' = [held EXCEPT ![c] = ChanRecvValue(pool)]
    /\ stale' = [stale EXCEPT ![c] = NoClient]
    /\ pool' = ChanRecv(pool)
    /\ res' = [res EXCEPT ![c] = "client"]
    /\ UNCHANGED <<ctorVars, chanClosed, connClosed, pc, closePC, panicked, misused,
                   closeSnap>>

\* lines 478-480 on a closed and drained channel: the receive delivers the zero
\* value, and Get returns the nil Client and the nil error
GetNowClosed(c) ==
    /\ ~panicked
    /\ UNCHANGED sessVars
    /\ pc[c] = "idle" /\ held[c] = NoClient
    /\ pool = <<>> /\ chanClosed
    /\ stale' = [stale EXCEPT ![c] = NoClient]
    /\ res' = [res EXCEPT ![c] = "nil"]
    /\ UNCHANGED <<ctorVars, pool, chanClosed, connClosed, pc, held, closePC,
                   panicked, misused, closeSnap>>

\* line 478: nothing is queued and the channel is open, the select parks
GetBlock(c) ==
    /\ ~panicked
    /\ UNCHANGED sessVars
    /\ pc[c] = "idle" /\ held[c] = NoClient
    /\ pool = <<>> /\ ~chanClosed
    /\ pc' = [pc EXCEPT ![c] = "get"]
    /\ stale' = [stale EXCEPT ![c] = NoClient]
    /\ res' = [res EXCEPT ![c] = "none"]
    /\ UNCHANGED <<ctorVars, pool, chanClosed, connClosed, held, closePC, panicked,
                   misused, closeSnap>>

\* lines 479-480: a parked Get is woken by a send
GetWake(c) ==
    /\ ~panicked
    /\ UNCHANGED sessVars
    /\ pc[c] = "get"
    /\ pool # <<>>
    /\ held' = [held EXCEPT ![c] = ChanRecvValue(pool)]
    /\ pool' = ChanRecv(pool)
    /\ pc' = [pc EXCEPT ![c] = "idle"]
    /\ res' = [res EXCEPT ![c] = "client"]
    /\ UNCHANGED <<ctorVars, chanClosed, connClosed, stale, closePC, panicked,
                   misused, closeSnap>>

\* lines 479-480: a parked Get is woken by close(p.pool)
GetWakeClosed(c) ==
    /\ ~panicked
    /\ UNCHANGED sessVars
    /\ pc[c] = "get"
    /\ pool = <<>> /\ chanClosed
    /\ pc' = [pc EXCEPT ![c] = "idle"]
    /\ res' = [res EXCEPT ![c] = "nil"]
    /\ UNCHANGED <<ctorVars, pool, chanClosed, connClosed, held, stale, closePC,
                   panicked, misused, closeSnap>>

\* lines 481-482: time.After(p.timeout) fires for a parked Get (p.timeout > 0,
\* so it never fires before the select has looked at the channel)
GetTimeout(c) ==
    /\ ~panicked
    /\ UNCHANGED sessVars
    /\ pc[c] = "get"
    /\ pc' = [pc EXCEPT ![c] = "idle"]
    /\ res' = [res EXCEPT ![c] = "timeout"]
    /\ UNCHANGED <<ctorVars, pool, chanClosed, connClosed, held, stale, closePC,
                   panicked, misused, closeSnap>>

\* a release as the callers of Get do it (defer pool.Put(client) after the
\* error check): the caller passes the Client it holds, or the nil Client
\* that Get returned with a nil error
HeldChoices(c) ==
    IF held[c] # NoClient THEN {held[c]}
    ELSE IF res[c] = "nil" THEN {NoClient}
    ELSE {}

\* a misuse, at most MaxMisuse times in a behaviour: the caller passes the Client
\* it has already put back (a double release) or one it made itself with
\* NewClient (a foreign release)
MisuseChoices(c) ==
    IF misused < MaxMisuse
    THEN ({stale[c]} \ {NoClient}) \cup {ForeignClient}
    ELSE {}

\* lines 487-494
Put(c, s) ==
    /\ ~panicked
    /\ UNCHANGED sessVars
    /\ pc[c] = "idle"
    /\ IF chanClosed
       THEN \* a send on a closed channel panics, in a select with a default too
            /\ panicked' = TRUE
            /\ UNCHANGED <<pool, connClosed, held, stale, misused>>
       ELSE /\ IF ChanHasRoom(pool, maxConn)
               THEN pool' = Append(pool, s) /\ UNCHANGED connClosed
               ELSE connClosed' = connClosed \cup {s} /\ UNCHANGED pool
            /\ held' = [held EXCEPT ![c] = IF s = held[c] THEN NoClient ELSE @]
            /\ stale' = [stale EXCEPT ![c] = IF s = held[c] THEN s ELSE @]
            /\ misused' = IF s = held[c] THEN misused ELSE misused + 1
            /\ UNCHANGED panicked
    /\ UNCHANGED <<ctorVars, chanClosed, pc, res, closePC, closeSnap>>

\* line 498: close(p.pool); closing a closed channel panics
CloseBegin ==
    /\ ~panicked
    /\ UNCHANGED sessVars
    /\ closePC = "idle"
    /\ IF chanClosed
       THEN /\ panicked' = TRUE
            /\ UNCHANGED <<chanClosed, closePC, closeSnap>>
       ELSE /\ chanClosed' = TRUE
            /\ closePC' = "drain"
            /\ closeSnap' = pool
            /\ UNCHANGED panicked
    /\ UNCHANGED <<ctorVars, pool, connClosed, pc, held, stale, res, misused>>

\* lines 499-501, one iteration: a queued Client is received and closed
CloseDrain ==
    /\ ~panicked
    /\ UNCHANGED sessVars
    /\ closePC = "drain"
    /\ pool # <<>>
    /\ pool' = ChanRecv(pool)
    /\ connClosed' = connClosed \cup {ChanRecvValue(pool)}
    /\ UNCHANGED <<ctorVars, chanClosed, pc, held, stale, res, closePC, panicked,
                   misused, closeSnap>>

\* line 499: the closed channel is empty, the range loop ends and Close returns
CloseEnd ==
    /\ ~panicked
    /\ UNCHANGED sessVars
    /\ closePC = "drain"
    /\ pool = <<>>
    /\ closePC' = "idle"
    /\ UNCHANGED <<ctorVars, pool, chanClosed, connClosed, pc, held, stale, res,
                   panicked, misused, closeSnap>>

PoolInit == (\E n \in 1..MaxConn : Constructed(n)) /\ CallersIdle /\ NoSession

PoolNext ==
    \/ \E c \in Callers : GetNow(c)
    \/ \E c \in Callers : GetNowClosed(c)
    \/ \E c \in Callers : GetBlock(c)
    \/ \E c \in Callers : GetWake(c)
    \/ \E c \in Callers : GetWakeClosed(c)
    \/ \E c \in Callers : GetTimeout(c)
    \/ \E c \in Callers : \E s \in HeldChoices(c) : Put(c, s)
    \/ CloseBegin
    \/ CloseDrain
    \/ CloseEnd

\* every Put returns a Client its caller got from Get and still holds
PoolSpec == PoolInit /\ [][PoolNext]_vars

MisuseNext ==
    \/ PoolNext
    \/ \E c \in Callers : \E s \in MisuseChoices(c) : Put(c, s)

\* callers may also release a Client twice, or one the pool never gave out
MisuseSpec == PoolInit /\ [][MisuseNext]_vars

(***************************************************************************)
(* Client.sendRequest                                                      *)
(***************************************************************************)
Min(a, b) == IF a <= b THEN a ELSE b

\* the first n elements of q, and the rest
Take(q, n) == SubSeq(q, 1, n)
Drop(q, n) == SubSeq(q, n + 1, Len(q))

\* make([]byte, n)
Zeros(n) == [i \in 1..n |-> 0]

\* binary.BigEndian.PutUint16
BE16(x) == <<x \div 256, x % 256>>

\* binary.BigEndian.Uint16(b[i:i+2]), i counted from 0
Uint16At(b, i) == b[i + 1] * 256 + b[i + 2]

\* a counter that runs past 65535
NextTransactionIDNoWrap(id) == id + 1

\* line 85: c.transactionID++ on a uint16
NextTransactionID(id) == (id + 1) % TwoPow16

\* the id the counter held before line 85
EnvelopeIDBeforeIncrement(before, after) == before

\* line 89: the header takes c.transactionID as line 85 has left it
EnvelopeID(before, after) == after

\* a header whose length field counts the PDU only
MBAPLengthOfPDU(id, pduLen, slaveID) ==
    BE16(id) \o BE16(0) \o BE16(pduLen % TwoPow16) \o <<slaveID>>

\* lines 88-92: the MBAP header
MBAP(id, pduLen, slaveID) ==
    BE16(id) \o BE16(0) \o BE16((pduLen + 1) % TwoPow16) \o <<slaveID>>

\* a mutex anybody can lock
CanLockAlways(m) == TRUE

\* line 81: c.mutex.Lock() goes through when the mutex is unlocked
CanLock(m) == m = NoTask

\* a check that accepts every header
IDMatchesAlways(resp, id) == TRUE

\* line 120: respTransactionID != c.transactionID fails the exchange
IDMatches(resp, id) == resp = id

\* line 126: binary.BigEndian.Uint16(header[4:6]) - 1 on a uint16
DataLength(lengthField) == (lengthField - 1) % TwoPow16

\* data[i] of the buffer of line 127 after a Read that filled its first bytes
ByteAt(d, i) == IF i < Len(d.bytes) THEN d.bytes[i + 1] ELSE 0

\* line 133
IsException(d) == d.len >= 2 /\ ByteAt(d, 0) >= 128

\* the values sendRequest returns
ErrorResult(e) == [NoResult EXCEPT !.kind = "error", !.err = e]
DataResult(d) == [NoResult EXCEPT !.kind = "data", !.len = d.len, !.bytes = d.bytes]
\* a ModbusError that keeps the top bit of the function code
ExceptionResultKeepsTopBit(d) ==
    [NoResult EXCEPT !.kind = "exception", !.fc = ByteAt(d, 0), !.ec = ByteAt(d, 1)]

\* lines 134-137
ExceptionResult(d) ==
    [NoResult EXCEPT !.kind = "exception", !.fc = ByteAt(d, 0) % 128, !.ec = ByteAt(d, 1)]

\* the calls tried: read-holding-registers(0, 5) and write-single-coil(1, true)
CallInputs == [slaveID : {1}, pdu : {<<3, 0, 0, 0, 5>>, <<5, 0, 1, 255, 0>>}]

\* the transactionID values a behaviour starts from: a new Client, and one
\* that has done 65534 exchanges
StartIDs == {0, TwoPow16 - 2}

\* what the peer may send as a response: the id of the last request or of the
\* one before, any length field, a PDU that may or may not have that length
PeerIDs == {transactionID, (transactionID - 1) % TwoPow16}
PeerLengths == {0, 3}
PeerPDUs == {<<>>, <<131, 2>>}
PeerFrames ==
    {MBAP(id, n - 1, 1) \o p : id \in PeerIDs, n \in PeerLengths, p \in PeerPDUs}

\* what one conn.Read may return for a buffer of want bytes when avail bytes
\* have arrived: at least one byte, at most the buffer
ReadSizes(want, avail) == 1..Min(want, avail)

\* sendRequest touches neither a pool nor the variables of its caller
poolFrozen == UNCHANGED <<poolVars, opVars>>

\* sendRequest is called
SRCall(t, a) ==
    /\ spc[t] = "idle"
    /\ spc' = [spc EXCEPT ![t] = "lock"]
    /\ args' = [args EXCEPT ![t] = a]
    /\ UNCHANGED <<transactionID, mutex, connOpen, rx, pending, request, dataLength,
                   respID, startID, started, completed, returned, response>>
    /\ poolFrozen

\* lines 81-95: the mutex is taken, the counter incremented, the request built
SRLock(t) ==
    /\ spc[t] = "lock"
    /\ CanLock(mutex)
    /\ mutex' = t
    /\ transactionID' = NextTransactionID(transactionID)
    /\ request' = [request EXCEPT ![t] =
          MBAP(EnvelopeID(transactionID, transactionID'), Len(args[t].pdu),
               args[t].slaveID) \o args[t].pdu]
    /\ started' = Append(started, t)
    /\ spc' = [spc EXCEPT ![t] = "locked"]
    /\ UNCHANGED <<connOpen, rx, pending, args, dataLength, respID, startID,
                   completed, returned, response>>
    /\ poolFrozen

\* a return that leaves the mutex locked
ReturnKeepsLock(t, r, seen) ==
    /\ returned' = [task |-> t, r |-> r, sent |-> Uint16At(request[t], 0),
                    seen |-> seen]
    /\ spc' = [spc EXCEPT ![t] = "done"]
    /\ args' = [args EXCEPT ![t] = NoArgs]
    /\ request' = [request EXCEPT ![t] = <<>>]
    /\ dataLength' = [dataLength EXCEPT ![t] = 0]
    /\ respID' = [respID EXCEPT ![t] = -1]
    /\ mutex' = mutex
    /\ completed' = Append(completed, t)
    /\ response' = IF t = OpTask /\ opc = "exchange" THEN r ELSE response

\* return r, after a header with id seen was read (-1: no header): the deferred
\* Unlock of line 82 runs and the locals of the call are gone
Return(t, r, seen) ==
    /\ returned' = [task |-> t, r |-> r, sent |-> Uint16At(request[t], 0),
                    seen |-> seen]
    /\ spc' = [spc EXCEPT ![t] = "done"]
    /\ args' = [args EXCEPT ![t] = NoArgs]
    /\ request' = [request EXCEPT ![t] = <<>>]
    /\ dataLength' = [dataLength EXCEPT ![t] = 0]
    /\ respID' = [respID EXCEPT ![t] = -1]
    /\ mutex' = NoTask
    /\ completed' = Append(completed, t)
    /\ response' = IF t = OpTask /\ opc = "exchange" THEN r ELSE response

\* lines 98-100: SetWriteDeadline fails on a closed connection
SRWriteDeadlineErr(t) ==
    /\ spc[t] = "locked"
    /\ ~connOpen
    /\ Return(t, ErrorResult("deadline"), -1)
    /\ UNCHANGED <<transactionID, connOpen, rx, pending, startID, started>>
    /\ poolFrozen

\* lines 103-105: Write fails (the deadline passes, the peer resets, the
\* connection was closed after line 98)
SRWriteErr(t) ==
    /\ spc[t] = "locked"
    /\ Return(t, ErrorResult("send"), -1)
    /\ UNCHANGED <<transactionID, connOpen, rx, pending, startID, started>>
    /\ poolFrozen

\* line 103: the request is written
SRWrite(t) ==
    /\ spc[t] = "locked"
    /\ connOpen
    /\ pending' = pending + 1
    /\ spc' = [spc EXCEPT ![t] = "sent"]
    /\ UNCHANGED <<transactionID, mutex, connOpen, rx, args, request, dataLength,
                   respID, startID, started, completed, returned, response>>
    /\ poolFrozen

\* lines 108-110: SetReadDeadline fails on a closed connection
SRReadDeadlineErr(t) ==
    /\ spc[t] = "sent"
    /\ ~connOpen
    /\ Return(t, ErrorResult("deadline"), -1)
    /\ UNCHANGED <<transactionID, connOpen, rx, pending, startID, started>>
    /\ poolFrozen

\* a read timeout that takes the increment of line 84 back
SRReadHeaderErrRollsBack(t) ==
    /\ spc[t] = "sent"
    /\ ~connOpen \/ rx = <<>>
    /\ Return(t, ErrorResult("header"), -1)
    /\ transactionID' = (transactionID - 1) % TwoPow16
    /\ UNCHANGED <<connOpen, rx, pending, startID, started>>
    /\ poolFrozen

\* lines 114-116: nothing arrives before the read deadline, or the connection
\* was closed after line 108
SRReadHeaderErr(t) ==
    /\ spc[t] = "sent"
    /\ ~connOpen \/ rx = <<>>
    /\ Return(t, ErrorResult("header"), -1)
    /\ UNCHANGED <<transactionID, connOpen, rx, pending, startID, started>>
    /\ poolFrozen

\* lines 113-123: c.conn.Read(header) delivers n of the bytes that have arrived,
\* the rest of the 7-byte buffer stays zero; the id is compared
SRReadHeader(t, n) ==
    /\ spc[t] = "sent"
    /\ connOpen
    /\ n \in ReadSizes(HeaderLen, Len(rx))
    /\ rx' = Drop(rx, n)
    /\ LET header == Take(rx, n) \o Zeros(HeaderLen - n)
           respTransactionID == Uint16At(header, 0)
       IN  IF IDMatches(respTransactionID, transactionID)
           THEN /\ respID' = [respID EXCEPT ![t] = respTransactionID]
                /\ dataLength' = [dataLength EXCEPT ![t] =
                                     DataLength(Uint16At(header, 4))]
                /\ spc' = [spc EXCEPT ![t] = "header"]
                /\ UNCHANGED <<mutex, args, request, completed, returned, response>>
           ELSE Return(t, ErrorResult("mismatch"), respTransactionID)
    /\ UNCHANGED <<transactionID, connOpen, pending, startID, started>>
    /\ poolFrozen

\* lines 128-130: the connection is closed, or nothing arrives for a buffer
\* that is not empty
SRReadDataErr(t) ==
    /\ spc[t] = "header"
    /\ ~connOpen \/ (dataLength[t] > 0 /\ rx = <<>>)
    /\ Return(t, ErrorResult("data"), respID[t])
    /\ UNCHANGED <<transactionID, connOpen, rx, pending, startID, started>>
    /\ poolFrozen

\* lines 127-140: c.conn.Read(data) delivers n of the bytes that have arrived
\* (none for an empty buffer); an exception response becomes a ModbusError
SRReadData(t, n) ==
    /\ spc[t] = "header"
    /\ connOpen
    /\ IF dataLength[t] = 0 THEN n = 0 ELSE n \in ReadSizes(dataLength[t], Len(rx))
    /\ rx' = Drop(rx, n)
    /\ LET data == [len |-> dataLength[t], bytes |-> Take(rx, n)]
       IN  IF IsException(data)
           THEN Return(t, ExceptionResult(data), respID[t])
           ELSE Return(t, DataResult(data), respID[t])
    /\ UNCHANGED <<transactionID, connOpen, pending, startID, started>>
    /\ poolFrozen

\* the peer answers a request it has received
PeerRespond(f) ==
    /\ pending > 0
    /\ rx = <<>>
    /\ rx' = f
    /\ pending' = pending - 1
    /\ UNCHANGED <<transactionID, mutex, connOpen, spc, args, request, dataLength,
                   respID, startID, started, completed, returned, response>>
    /\ poolFrozen

\* lines 75-77: some goroutine calls c.Close()
ClientClose ==
    /\ connOpen
    /\ connOpen' = FALSE
    /\ UNCHANGED <<transactionID, mutex, rx, pending, spc, args, request, dataLength,
                   respID, startID, started, completed, returned, response>>
    /\ poolFrozen

SessionInit ==
    /\ NoPool /\ CallersIdle
    /\ transactionID \in StartIDs
    /\ startID = transactionID
    /\ mutex = NoTask
    /\ connOpen = TRUE
    /\ rx = <<>>
    /\ pending = 0
    /\ spc = [t \in Tasks |-> "idle"]
    /\ args = [t \in Tasks |-> NoArgs]
    /\ request = [t \in Tasks |-> <<>>]
    /\ dataLength = [t \in Tasks |-> 0]
    /\ respID = [t \in Tasks |-> -1]
    /\ started = <<>>
    /\ completed = <<>>
    /\ returned = NoReturn
    /\ NoCaller

SessionNext ==
    \/ \E t \in Tasks : \E a \in CallInputs : SRCall(t, a)
    \/ \E t \in Tasks : SRLock(t)
    \/ \E t \in Tasks : SRWriteDeadlineErr(t)
    \/ \E t \in Tasks : SRWriteErr(t)
    \/ \E t \in Tasks : SRWrite(t)
    \/ \E t \in Tasks : SRReadDeadlineErr(t)
    \/ \E t \in Tasks : SRReadHeaderErr(t)
    \/ \E t \in Tasks : \E n \in 1..HeaderLen : SRReadHeader(t, n)
    \/ \E t \in Tasks : SRReadDataErr(t)
    \/ \E t \in Tasks : \E n \in 0..Len(rx) : SRReadData(t, n)
    \/ \E f \in PeerFrames : PeerRespond(f)
    \/ ClientClose

SessionSpec == SessionInit /\ [][SessionNext]_vars

\* the steps of a call of sendRequest that holds the mutex: each of lines 98-140
\* returns or goes on, since Write and Read return when their deadline
\* (lines 98, 108) passes
SRStep(t) ==
    \/ SRWriteDeadlineErr(t)
    \/ SRWriteErr(t)
    \/ SRWrite(t)
    \/ SRReadDeadlineErr(t)
    \/ SRReadHeaderErr(t)
    \/ \E n \in 1..HeaderLen : SRReadHeader(t, n)
    \/ SRReadDataErr(t)
    \/ \E n \in 0..Len(rx) : SRReadData(t, n)

\* a goroutine that runs keeps running, and a goroutine blocked in Lock (line
\* 81) gets the mutex when it is unlocked again and again (sync.Mutex hands a
\* starved waiter the lock)
SessionFairness ==
    \A t \in Tasks : WF_vars(SRStep(t)) /\ SF_vars(SRLock(t))

\* the behaviours of a new Client whose callers all make the same call and
\* whose peer answers with the exception response, under the id of the last
\* request or of the one before
LiveCall == [slaveID |-> 1, pdu |-> <<3, 0, 0, 0, 5>>]
LivePeerFrames == {MBAP(id, 2, 1) \o <<131, 2>> : id \in PeerIDs}

SessionLiveInit == SessionInit /\ startID = 0

SessionLiveNext ==
    \/ \E t \in Tasks : SRCall(t, LiveCall)
    \/ \E t \in Tasks : SRLock(t)
    \/ \E t \in Tasks : SRWriteDeadlineErr(t)
    \/ \E t \in Tasks : SRWriteErr(t)
    \/ \E t \in Tasks : SRWrite(t)
    \/ \E t \in Tasks : SRReadDeadlineErr(t)
    \/ \E t \in Tasks : SRReadHeaderErr(t)
    \/ \E t \in Tasks : \E n \in 1..HeaderLen : SRReadHeader(t, n)
    \/ \E t \in Tasks : SRReadDataErr(t)
    \/ \E t \in Tasks : \E n \in 0..Len(rx) : SRReadData(t, n)
    \/ \E f \in LivePeerFrames : PeerRespond(f)
    \/ ClientClose

SessionLiveSpec == SessionLiveInit /\ [][SessionLiveNext]_vars /\ SessionFairness

(***************************************************************************)
(* The operations of a Client: ReadCoils ... WriteMultipleRegisters        *)
(***************************************************************************)
\* the function codes of lines 13-22
FuncCodeReadCoils == 1
FuncCodeReadDiscreteInputs == 2
FuncCodeReadHoldingRegisters == 3
FuncCodeReadInputRegisters == 4
FuncCodeWriteSingleCoil == 5
FuncCodeWriteSingleRegister == 6
FuncCodeWriteMultipleCoils == 15
FuncCodeWriteMultipleRegisters == 16

\* the limits of lines 145, 182, 218, 301, 340
MaxReadCoils == 2000
MaxReadRegisters == 125
MaxWriteCoils == 1968
MaxWriteRegisters == 123

\* uint16(n) and byte(n)
Uint16Of(n) == n % TwoPow16
ByteOf(n) == n % 256

\* a slice of n elements that are all v (bools as 0 and 1), its type as Go's
\* type switch sees it; NoValues is the nil interface
Values(type, n, v) == [type |-> type, len |-> n, fill |-> v]
NoValues == Values("nil", 0, 0)

\* a call: the method, its arguments
Op(kind, address, quantity, value, values) ==
    [kind |-> kind, slaveID |-> 1, address |-> address, quantity |-> quantity,
     value |-> value, values |-> values]
NoOp == Op("none", 0, 0, 0, NoValues)

ReadKinds == {"ReadCoils", "ReadHoldingRegisters", "ReadInputRegisters"}
SingleWriteKinds == {"WriteSingleCoil", "WriteSingleRegister"}
MultiWriteKinds == {"WriteMultipleCoils", "WriteMultipleRegisters"}

\* pdu[0] of the request of each method
FuncCode(kind) ==
    CASE kind = "ReadCoils" -> FuncCodeReadCoils
      [] kind = "ReadHoldingRegisters" -> FuncCodeReadHoldingRegisters
      [] kind = "ReadInputRegisters" -> FuncCodeReadInputRegisters
      [] kind = "WriteSingleCoil" -> FuncCodeWriteSingleCoil
      [] kind = "WriteSingleRegister" -> FuncCodeWriteSingleRegister
      [] kind = "WriteMultipleCoils" -> FuncCodeWriteMultipleCoils
      [] kind = "WriteMultipleRegisters" -> FuncCodeWriteMultipleRegisters

\* the largest quantity each check lets through
MaxQuantity(kind) ==
    CASE kind = "ReadCoils" -> MaxReadCoils
      [] kind \in {"ReadHoldingRegisters", "ReadInputRegisters"} -> MaxReadRegisters
      [] kind = "WriteMultipleCoils" -> MaxWriteCoils
      [] kind = "WriteMultipleRegisters" -> MaxWriteRegisters

\* lines 300, 339: quantity := uint16(len(values))
QuantityOfLen(n) == Uint16Of(n)

\* the quantity the method checks and sends
Quantity(o) ==
    IF o.kind \in MultiWriteKinds THEN QuantityOfLen(o.values.len) ELSE o.quantity

\* lines 145, 182, 218, 301, 340: quantity == 0 || quantity > max
Rejects(o) ==
    /\ o.kind \in ReadKinds \cup MultiWriteKinds
    /\ Quantity(o) = 0 \/ Quantity(o) > MaxQuantity(o.kind)

\* a slice with the elements elems
ValuesOf(type, elems) == [type |-> type, len |-> Len(elems), elems |-> elems]

\* the i-th element (from 0) of the value list
ValueAt(o, i) ==
    IF "elems" \in DOMAIN o.values THEN o.values.elems[i + 1] ELSE o.values.fill

\* lines 306, 344
ByteCount(o) ==
    IF o.kind = "WriteMultipleCoils" THEN (Quantity(o) + 7) \div 8
    ELSE Uint16Of(Quantity(o) * 2)

\* lines 316-322 and 354-356 index pdu by the position in values: past the end
\* of pdu when values is longer than the quantity the pdu was made for
BuildPanics(o) ==
    \/ /\ o.kind = "WriteMultipleCoils"
       /\ IF "elems" \in DOMAIN o.values
          THEN \E i \in 0..(o.values.len - 1) :
                   ValueAt(o, i) = 1 /\ i \div 8 >= ByteCount(o)
          ELSE /\ o.values.len > 0 /\ o.values.fill = 1
               /\ (o.values.len - 1) \div 8 >= ByteCount(o)
    \/ /\ o.kind = "WriteMultipleRegisters"
       /\ o.values.len > Quantity(o)

\* lines 316-322: byte j of the packed coils
RECURSIVE PackBits(_, _, _)
PackBits(o, j, b) ==
    IF b = 8 \/ 8 * j + b >= o.values.len THEN 0
    ELSE ValueAt(o, 8 * j + b) * 2 ^ b + PackBits(o, j, b + 1)

\* lines 354-356: the registers, two bytes each, high byte first
PackRegisters(o) ==
    [k \in 1..(2 * o.values.len) |-> BE16(ValueAt(o, (k - 1) \div 2))[2 - (k % 2)]]

\* the PDU each method builds
BuildPDU(o) ==
    CASE o.kind \in ReadKinds ->
           <<FuncCode(o.kind)>> \o BE16(o.address) \o BE16(o.quantity)
      [] o.kind = "WriteSingleCoil" ->
           <<FuncCode(o.kind)>> \o BE16(o.address)
              \o BE16(IF o.value = 1 THEN 65280 ELSE 0)
      [] o.kind = "WriteSingleRegister" ->
           <<FuncCode(o.kind)>> \o BE16(o.address) \o BE16(o.value)
      [] o.kind = "WriteMultipleCoils" ->
           <<FuncCode(o.kind)>> \o BE16(o.address) \o BE16(Quantity(o))
              \o <<ByteOf(ByteCount(o))>>
              \o [j \in 1..ByteCount(o) |-> PackBits(o, j - 1, 0)]
      [] o.kind = "WriteMultipleRegisters" ->
           <<FuncCode(o.kind)>> \o BE16(o.address) \o BE16(Quantity(o))
              \o <<ByteOf(ByteCount(o))>> \o PackRegisters(o)

\* what an operation returns: values and a nil error, an error, a ModbusError;
\* or it does not return, the goroutine panics
NoOutcome == [kind |-> "none", err |-> "", values |-> <<>>, fc |-> 0, ec |-> 0]
OkOutcome(v) == [NoOutcome EXCEPT !.kind = "ok", !.values = v]
ErrOutcome(e) == [NoOutcome EXCEPT !.kind = "error", !.err = e]
PanicOutcome == [NoOutcome EXCEPT !.kind = "panic"]

\* lines 156-158 and alike: the error of sendRequest is returned as it is
FailedExchange(r) ==
    IF r.kind = "exception"
    THEN [NoOutcome EXCEPT !.kind = "exception", !.fc = r.fc, !.ec = r.ec]
    ELSE ErrOutcome(r.err)

\* a byte read from its top bit down
BitMSBFirst(x, b) == (x \div 2 ^ (7 - b)) % 2

\* bit b of the byte x
Bit(x, b) == (x \div 2 ^ b) % 2

\* lines 160-177: ReadCoils decodes the response d; 2+byteCount is a sum of
\* bytes
DecodeCoils(o, d) ==
    IF d.len < 2 THEN ErrOutcome("invalid response length")
    ELSE IF d.len # ByteOf(2 + ByteAt(d, 1))
         THEN ErrOutcome("response length mismatch")
    ELSE IF 2 + (o.quantity - 1) \div 8 >= d.len THEN PanicOutcome
    ELSE OkOutcome([i \in 1..o.quantity |->
                       Bit(ByteAt(d, 2 + (i - 1) \div 8), (i - 1) % 8)])

\* lines 197-213, 233-249: ReadHoldingRegisters, ReadInputRegisters
DecodeRegisters(o, d) ==
    IF d.len < 2 THEN ErrOutcome("invalid response length")
    ELSE IF \/ ByteAt(d, 1) # ByteOf(Uint16Of(o.quantity * 2))
            \/ d.len # ByteOf(2 + ByteAt(d, 1))
         THEN ErrOutcome("response length mismatch")
    ELSE OkOutcome([i \in 1..o.quantity |->
                       ByteAt(d, 2 * i) * 256 + ByteAt(d, 2 * i + 1)])

\* an echo check that compares the whole response with the head of the request
EchoAcceptedExact(o, d) ==
    /\ d.len = 5
    /\ \A i \in 0..4 : ByteAt(d, i) = BuildPDU(o)[i + 1]

\* lines 270, 291, 330, 364: len(response) != 5 || response[0] != the code
EchoAccepted(o, d) == d.len = 5 /\ ByteAt(d, 0) = FuncCode(o.kind)

DecodeEcho(o, d) ==
    IF EchoAccepted(o, d) THEN OkOutcome(<<>>) ELSE ErrOutcome("invalid response")

\* what the method makes of the data sendRequest returned
Decode(o, d) ==
    CASE o.kind = "ReadCoils" -> DecodeCoils(o, d)
      [] o.kind \in {"ReadHoldingRegisters", "ReadInputRegisters"} ->
           DecodeRegisters(o, d)
      [] OTHER -> DecodeEcho(o, d)

\* the part of the state an operation leaves to sendRequest
exchangeVars == <<transactionID, mutex, connOpen, rx, pending, request,
                  dataLength, respID, startID, started, completed, returned>>

sendRequestVars == <<exchangeVars, response>>

batchVars == <<operations, bpc, bi, results>>

\* a method that takes the mutex and counts the call before it looks at the
\* quantity
OpRejectAfterLock(o) ==
    /\ opc = "idle" /\ spc[OpTask] = "idle"
    /\ Rejects(o)
    /\ op' = o
    /\ opc' = "returned"
    /\ opres' = ErrOutcome("invalid quantity")
    /\ transactionID' = NextTransactionID(transactionID)
    /\ UNCHANGED <<mutex, connOpen, rx, pending, request, dataLength, respID,
                   startID, started, completed, returned, response>>
    /\ UNCHANGED <<spc, args, batchVars, poolVars, coilVars>>

\* lines 145-147 and alike: the quantity is refused before anything is built
OpReject(o) ==
    /\ opc = "idle" /\ spc[OpTask] = "idle"
    /\ Rejects(o)
    /\ op' = o
    /\ opc' = "returned"
    /\ opres' = ErrOutcome("invalid quantity")
    /\ UNCHANGED <<sendRequestVars, spc, args, batchVars, poolVars, coilVars>>

\* lines 316-322, 354-356: an index past the end of pdu
OpBuildPanic(o) ==
    /\ opc = "idle" /\ spc[OpTask] = "idle"
    /\ ~Rejects(o)
    /\ BuildPanics(o)
    /\ op' = o
    /\ opc' = "panic"
    /\ opres' = PanicOutcome
    /\ UNCHANGED <<sendRequestVars, spc, args, batchVars, poolVars, coilVars>>

\* lines 150-155 and alike: the PDU is built and sendRequest called
OpSend(o) ==
    /\ opc = "idle" /\ spc[OpTask] = "idle"
    /\ ~Rejects(o)
    /\ ~BuildPanics(o)
    /\ op' = o
    /\ opc' = "exchange"
    /\ opres' = NoOutcome
    /\ args' = [args EXCEPT ![OpTask] = [slaveID |-> o.slaveID, pdu |-> BuildPDU(o)]]
    /\ spc' = [spc EXCEPT ![OpTask] = "lock"]
    /\ UNCHANGED <<sendRequestVars, batchVars, poolVars, coilVars>>

\* a call of a method of the Client
OpCall(o) == OpReject(o) \/ OpBuildPanic(o) \/ OpSend(o)

\* a method that calls sendRequest a second time when the first call fails
OpFailRetries ==
    /\ opc = "exchange" /\ spc[OpTask] = "done"
    /\ response.kind # "data"
    /\ IF Len(started) < 2
       THEN /\ spc' = [spc EXCEPT ![OpTask] = "lock"]
            /\ args' = [args EXCEPT ![OpTask] =
                           [slaveID |-> op.slaveID, pdu |-> BuildPDU(op)]]
            /\ UNCHANGED <<opc, opres>>
       ELSE /\ opres' = FailedExchange(response)
            /\ opc' = "returned"
            /\ spc' = [spc EXCEPT ![OpTask] = "idle"]
            /\ UNCHANGED args
    /\ response' = [kind |-> "none"]
    /\ UNCHANGED <<exchangeVars, op, batchVars, poolVars, coilVars>>

\* lines 156-158 and alike: sendRequest has returned an error
OpFail ==
    /\ opc = "exchange" /\ spc[OpTask] = "done"
    /\ response.kind # "data"
    /\ opres' = FailedExchange(response)
    /\ opc' = "returned"
    /\ spc' = [spc EXCEPT ![OpTask] = "idle"]
    /\ response' = [kind |-> "none"]
    /\ UNCHANGED <<exchangeVars, op, args, batchVars, poolVars, coilVars>>

\* lines 160-177 and alike: sendRequest has returned data, the method decodes it
OpDecode ==
    /\ opc = "exchange" /\ spc[OpTask] = "done"
    /\ response.kind = "data"
    /\ opres' = Decode(op, response)
    /\ opc' = IF opres'.kind = "panic" THEN "panic" ELSE "returned"
    /\ spc' = [spc EXCEPT ![OpTask] = "idle"]
    /\ response' = [kind |-> "none"]
    /\ UNCHANGED <<exchangeVars, op, args, batchVars, poolVars, coilVars>>

\* the calls tried: quantities and list lengths at and around the limits, and
\* lists longer than a uint16 counts
ReadQuantities == {0, 1, 2, MaxReadRegisters, MaxReadRegisters + 1, MaxReadCoils,
                   MaxReadCoils + 1}
CoilListLengths == {0, 1, 9, MaxWriteCoils, MaxWriteCoils + 1, TwoPow16,
                    TwoPow16 + 1, TwoPow16 + 9}
RegisterListLengths == {0, 1, MaxWriteRegisters, MaxWriteRegisters + 1, TwoPow16,
                        TwoPow16 + 1}
OpInputs ==
    {Op(k, 1, q, 0, NoValues) : k \in ReadKinds, q \in ReadQuantities}
    \cup {Op("ReadHoldingRegisters", 0, 5, 0, NoValues)}
    \cup {Op("WriteSingleCoil", 1, 0, v, NoValues) : v \in {0, 1}}
    \cup {Op("WriteSingleRegister", 1, 0, 7, NoValues)}
    \cup {Op("WriteMultipleCoils", 1, 0, 0, Values("bool", n, v)) :
             n \in CoilListLengths, v \in {0, 1}}
    \cup {Op("WriteMultipleRegisters", 1, 0, 0, Values("uint16", n, 7)) :
             n \in RegisterListLengths}

\* the response PDUs the peer may send to an operation: right ones, ones with
\* a wrong byte count, echoes of other fields, exceptions whole and cut
OpPeerPDUs ==
    {<<1, 1, 1>>, <<1, 0>>, <<1, 2, 1>>,
     <<3, 2, 0, 7>>, <<3, 4, 0, 7, 0, 8>>, <<3, 2, 0>>, <<4, 2, 0, 7>>, <<3>>,
     <<5, 0, 1, 255, 0>>, <<5, 0, 9, 255, 0>>, <<5, 0, 1, 0, 0>>,
     <<6, 0, 1, 0, 7>>, <<6, 0, 1, 0, 8>>,
     <<15, 0, 1, 0, 1>>, <<15, 0, 1, 0, 2>>,
     <<16, 0, 1, 0, 1>>, <<16, 0, 2, 0, 1>>,
     <<131, 2>>, <<131>>, <<128, 1>>, <<255, 4>>}

\* the frames of those PDUs, with the id of the request and the right length
OpPeerFrames == {MBAP(transactionID, Len(p), 1) \o p : p \in OpPeerPDUs}

\* one operation is called on a Client, the peer answers as it likes, the reads
\* deliver what they like
OpInit == SessionInit

OpNext ==
    \/ opc = "idle" /\ \E o \in OpInputs : OpReject(o)
    \/ opc = "idle" /\ \E o \in OpInputs : OpBuildPanic(o)
    \/ opc = "idle" /\ \E o \in OpInputs : OpSend(o)
    \/ SRLock(OpTask)
    \/ SRWriteDeadlineErr(OpTask)
    \/ SRWriteErr(OpTask)
    \/ SRWrite(OpTask)
    \/ SRReadDeadlineErr(OpTask)
    \/ SRReadHeaderErr(OpTask)
    \/ \E n \in 1..HeaderLen : SRReadHeader(OpTask, n)
    \/ SRReadDataErr(OpTask)
    \/ \E n \in 0..Len(rx) : SRReadData(OpTask, n)
    \/ \E f \in OpPeerFrames : PeerRespond(f)
    \/ ClientClose
    \/ OpFail
    \/ OpDecode

OpSpec == OpInit /\ [][OpNext]_vars

(***************************************************************************)
(* Client.ExecuteBatch                                                     *)
(***************************************************************************)
\* items in the argument of ExecuteBatch
MaxBatch == 2

\* a BatchOperation
Item(operation, quantity, values) ==
    [Operation |-> operation, SlaveID |-> 1, Address |-> 1, Values |-> values,
     Quantity |-> quantity]

\* the strings the switch of line 395 has a case for
BatchKinds == {"read_coils", "read_holding", "read_input", "write_coils",
               "write_registers"}

\* the eight kinds of operation, as ExecuteBatch would name them
EightKinds == BatchKinds \cup {"read_discrete_inputs", "write_single_coil",
                               "write_single_register"}

\* a switch that takes any Values
ValuesTypeAny(it) == TRUE

\* lines 412, 419: the type assertion on op.Values
ValuesTypeOk(it) ==
    CASE it.Operation = "write_coils" -> it.Values.type = "bool"
      [] it.Operation = "write_registers" -> it.Values.type = "uint16"
      [] OTHER -> TRUE

\* an item stops in the switch without a call: no case, or the wrong type
StopsInSwitch(it) == it.Operation \notin BatchKinds \/ ~ValuesTypeOk(it)

\* lines 415, 422, 426
SwitchError(it) ==
    IF it.Operation \notin BatchKinds THEN ErrOutcome("unknown operation")
    ELSE ErrOutcome("invalid values type")

\* lines 397, 402, 407, 413, 420: the method the case calls
BatchOp(it) ==
    CASE it.Operation = "read_coils" -> Op("ReadCoils", it.Address, it.Quantity, 0, NoValues)
      [] it.Operation = "read_holding" ->
           Op("ReadHoldingRegisters", it.Address, it.Quantity, 0, NoValues)
      [] it.Operation = "read_input" ->
           Op("ReadInputRegisters", it.Address, it.Quantity, 0, NoValues)
      [] it.Operation = "write_coils" ->
           Op("WriteMultipleCoils", it.Address, 0, 0, it.Values)
      [] it.Operation = "write_registers" ->
           Op("WriteMultipleRegisters", it.Address, 0, 0, it.Values)

\* a BatchResult; the zero value fills results before the loop stores
BatchResult(operation, outcome) == [Operation |-> operation, outcome |-> outcome]
ZeroResult == BatchResult("", NoOutcome)

\* line 390: ExecuteBatch is called
BatchBegin(ops) ==
    /\ bpc = "idle" /\ opc = "idle"
    /\ operations' = ops
    /\ results' = [i \in 1..Len(ops) |-> ZeroResult]
    /\ bi' = 1
    /\ bpc' = "loop"
    /\ UNCHANGED <<sendRequestVars, spc, args, op, opc, opres, poolVars, coilVars>>

\* lines 411-427: the item gets its error in the switch
BatchSwitchError ==
    /\ bpc = "loop" /\ opc = "idle"
    /\ bi <= Len(operations)
    /\ StopsInSwitch(operations[bi])
    /\ opres' = SwitchError(operations[bi])
    /\ opc' = "returned"
    /\ UNCHANGED <<sendRequestVars, spc, args, op, batchVars, poolVars, coilVars>>

\* lines 396-420: the case of the item calls its method
BatchDispatch ==
    /\ bpc = "loop"
    /\ bi <= Len(operations)
    /\ ~StopsInSwitch(operations[bi])
    /\ OpCall(BatchOp(operations[bi]))

\* the index of the item after i, when i has ended with the outcome r: a loop
\* that leaves at the first error
NextIndexBreakOnError(i, r, n) == IF r.kind = "ok" THEN i + 1 ELSE n + 1

\* a loop that steps over every second item
NextIndexSkipsOne(i, r, n) == Min(i + 2, n + 1)

\* line 392: the loop goes on to the next item whatever the outcome
NextIndex(i, r, n) == i + 1

\* line 429: results[i] = result
BatchStore ==
    /\ bpc = "loop" /\ opc = "returned"
    /\ results' = [results EXCEPT ![bi] = BatchResult(operations[bi].Operation, opres)]
    /\ bi' = NextIndex(bi, opres, Len(operations))
    /\ opc' = "idle"
    /\ UNCHANGED <<sendRequestVars, spc, args, op, opres, operations, bpc, poolVars, coilVars>>

\* line 432
BatchReturn ==
    /\ bpc = "loop" /\ opc = "idle"
    /\ bi > Len(operations)
    /\ bpc' = "returned"
    /\ UNCHANGED <<sendRequestVars, spc, args, op, opc, opres, operations, bi,
                   results, poolVars, coilVars>>

\* the items tried: one of each kind, a refused quantity, more coils than any
\* answer of the peer holds, value lists of the wrong type, and a name that is
\* no kind at all
BatchItems ==
    {Item(k, 1, NoValues) : k \in {"read_coils", "read_holding", "read_input",
                                   "read_discrete_inputs", "bogus"}}
    \cup {Item("read_holding", 0, NoValues), Item("read_coils", 17, NoValues)}
    \cup {Item("write_coils", 0, Values(ty, 1, 1)) : ty \in {"bool", "uint16"}}
    \cup {Item("write_registers", 0, Values(ty, 1, 1)) : ty \in {"bool", "uint16"}}
    \cup {Item("write_registers", 0, NoValues)}
    \cup {Item("write_single_coil", 0, Values("bool", 1, 1)),
          Item("write_single_register", 0, Values("uint16", 1, 1))}

RECURSIVE SeqsUpTo(_, _)
SeqsUpTo(S, n) ==
    IF n = 0 THEN {<<>>}
    ELSE LET shorter == SeqsUpTo(S, n - 1)
         IN  shorter \cup {Append(q, x) : q \in shorter, x \in S}

BatchInputs == SeqsUpTo(BatchItems, MaxBatch)

\* what the peer answers during a batch
BatchPeerPDUs == {<<3, 2, 0, 7>>, <<15, 0, 1, 0, 1>>, <<131, 2>>}
BatchPeerFrames == {MBAP(transactionID, Len(p), 1) \o p : p \in BatchPeerPDUs}

\* ExecuteBatch is called once on a new Client; requests may fail to go out,
\* the peer answers each one with one whole frame
BatchInit == SessionInit /\ startID = 0

BatchNext ==
    \/ bpc = "idle" /\ \E ops \in BatchInputs : BatchBegin(ops)
    \/ BatchSwitchError
    \/ BatchDispatch
    \/ SRLock(OpTask)
    \/ SRWriteErr(OpTask)
    \/ SRWrite(OpTask)
    \/ SRReadHeader(OpTask, HeaderLen)
    \/ \E n \in {dataLength[OpTask]} : SRReadData(OpTask, n)
    \/ \E f \in BatchPeerFrames : PeerRespond(f)
    \/ OpFail
    \/ OpDecode
    \/ BatchStore
    \/ BatchReturn

BatchSpec == BatchInit /\ [][BatchNext]_vars

(***************************************************************************)
(* ExecuteBatch on a Client that other goroutines use as well              *)
(***************************************************************************)
\* the other goroutine that calls sendRequest on the Client of the batch
Others == {t \in Tasks : t = OpTask + 1}

\* the items of the batches tried: a read and an item of no kind
SharedItems == {Item("read_holding", 1, NoValues), Item("bogus", 1, NoValues)}

SharedInputs == SeqsUpTo(SharedItems, MaxBatch)

\* what the peer answers, under the id of the last request: one register, or
\* the header of that answer alone
SharedPeerFrames == {MBAP(transactionID, 4, 1) \o p : p \in {<<3, 2, 0, 7>>, <<>>}}

\* the request of the other goroutines: write-single-coil(1, true)
OtherCall == [slaveID |-> 1, pdu |-> <<5, 0, 1, 255, 0>>]

SharedInit == BatchInit

SharedNext ==
    \/ bpc = "idle" /\ \E ops \in SharedInputs : BatchBegin(ops)
    \/ BatchSwitchError
    \/ BatchDispatch
    \/ \E t \in Others : SRCall(t, OtherCall)
    \/ \E t \in Tasks : SRLock(t)
    \/ \E t \in Tasks : SRWriteErr(t)
    \/ \E t \in Tasks : SRWrite(t)
    \/ \E t \in Tasks : SRReadHeaderErr(t)
    \/ \E t \in Tasks : \E n \in 1..HeaderLen : SRReadHeader(t, n)
    \/ \E t \in Tasks : SRReadDataErr(t)
    \/ \E t \in Tasks : \E n \in 0..Len(rx) : SRReadData(t, n)
    \/ \E f \in SharedPeerFrames : PeerRespond(f)
    \/ OpFail
    \/ OpDecode
    \/ BatchStore
    \/ BatchReturn

\* ExecuteBatch runs on a Client while other goroutines call sendRequest on it
SharedSpec == SharedInit /\ [][SharedNext]_vars

(***************************************************************************)
(* The coil conversions of WriteMultipleCoils and ReadCoils                *)
(***************************************************************************)
\* every array up to this length is tried
MaxAllCoils == 3

\* lines 306-322: the bytes after pdu[5], for the array a, or the panic of
\* line 320
PackCoils(a) ==
    LET o == Op("WriteMultipleCoils", 0, 0, 0, ValuesOf("bool", a))
    IN  IF BuildPanics(o) THEN PanicOutcome
        ELSE OkOutcome([j \in 1..ByteCount(o) |-> PackBits(o, j - 1, 0)])

\* lines 160-177: what ReadCoils makes of a response with these bytes after
\* the byte count, for n coils: the coils, the error of line 166 or the panic
\* of line 174
UnpackCoils(bytes, n) ==
    DecodeCoils(Op("ReadCoils", 0, n, 0, NoValues),
                [len |-> 2 + Len(bytes),
                 bytes |-> <<FuncCodeReadCoils, ByteOf(Len(bytes))>> \o bytes])

\* the lengths of the round-trip property, and the arrays tried at each: all
\* false, all true, alternating from true, alternating from false, every
\* third true, the last one true alone
CoilLengths == {0, 1, 7, 8, 9, 16, 2000}
CoilPatterns(n) ==
    {[i \in 1..n |-> 0], [i \in 1..n |-> 1], [i \in 1..n |-> i % 2],
     [i \in 1..n |-> (i + 1) % 2], [i \in 1..n |-> IF i % 3 = 0 THEN 1 ELSE 0],
     [i \in 1..n |-> IF i = n THEN 1 ELSE 0]}
CoilArrays ==
    UNION {[1..n -> {0, 1}] : n \in 0..MaxAllCoils}
    \cup UNION {CoilPatterns(n) : n \in CoilLengths}

\* an array is given to the conversions
CoilBegin(a) ==
    /\ cpc = "idle"
    /\ coils' = a
    /\ cpc' = "pack"
    /\ UNCHANGED <<packed, unpacked>>
    /\ UNCHANGED <<sendRequestVars, spc, args, op, opc, opres, batchVars, poolVars>>

\* lines 306-322
CoilPack ==
    /\ cpc = "pack"
    /\ packed' = PackCoils(coils)
    /\ cpc' = "unpack"
    /\ UNCHANGED <<coils, unpacked>>
    /\ UNCHANGED <<sendRequestVars, spc, args, op, opc, opres, batchVars, poolVars>>

\* lines 170-175
CoilUnpack ==
    /\ cpc = "unpack"
    /\ packed.kind = "ok"
    /\ unpacked' = UnpackCoils(packed.values, Len(coils))
    /\ cpc' = "done"
    /\ UNCHANGED <<coils, packed>>
    /\ UNCHANGED <<sendRequestVars, spc, args, op, opc, opres, batchVars, poolVars>>

CoilInit == NoPool /\ CallersIdle /\ NoSession

CoilNext ==
    \/ \E a \in CoilArrays : CoilBegin(a)
    \/ CoilPack
    \/ CoilUnpack

CoilSpec == CoilInit /\ [][CoilNext]_vars

(***************************************************************************)
(* Statements about the pool                                               *)
(***************************************************************************)
\* the callers that hold a Client
Holders == {c \in Callers : held[c] # NoClient}

\* the Clients of the pool, and the one made outside it
PoolClients == (1..maxConn) \cup {ForeignClient}

\* how often s is queued
Queued(s) == Cardinality({i \in 1..Len(pool) : pool[i] = s})

\* the callers that hold s
HoldersOf(s) == {c \in Callers : held[c] = s}

\* a step in which Get returns to c
GetReturns(c) ==
    GetNow(c) \/ GetNowClosed(c) \/ GetWake(c) \/ GetWakeClosed(c) \/ GetTimeout(c)

\* C1: with capacity N and every Put returning a Client its caller got from Get
\* and has not yet put back (PoolSpec), the number of Clients checked out at
\* the same time never exceeds N, however Get, Put and Close interleave.
C1_CheckedOutWithinCapacity == Cardinality(Holders) <= maxConn

\* all N Clients are checked out while a further Get is parked
C1_AllOutOneParked ==
    /\ maxConn = MaxConn
    /\ Cardinality(Holders) = maxConn
    /\ \E c \in Callers : pc[c] = "get"

\* C2: in every reachable state, double releases included (MisuseSpec), a
\* Client is held by at most one caller or queued at most once, never both:
\* the queue never holds a Client twice and no two callers hold the same Client.
C2_ExclusiveOwnership ==
    \A s \in PoolClients : Queued(s) + Cardinality(HoldersOf(s)) <= 1

\* what C7 says of a step in which Get returns to c: it hands out a queued
\* Client (the oldest), or it has blocked and returns the timeout error and no
\* Client; with nothing queued it can only be the latter; no Client is created
GetContract(c) ==
    /\ opened' = opened
    /\ \/ pool # <<>> /\ res'[c] = "client" /\ held'[c] = Head(pool)
       \/ pc[c] = "get" /\ res'[c] = "timeout" /\ held'[c] = NoClient

\* C7: Get blocks while no Client is available: when all N are checked out and
\* none is put back before the timeout, it returns the timeout error and no
\* Client; a Client put back in time can be returned to a waiting Get; Get
\* never creates a Client.
C7_GetBlocksUntilClientOrTimeout ==
    [][\A c \in Callers : GetReturns(c) => GetContract(c)]_vars

\* the same statement for the Gets that return while the channel is open
GetContractWhileOpen ==
    [][\A c \in Callers : GetReturns(c) /\ ~chanClosed => GetContract(c)]_vars

\* C8: a Put when the queue holds N Clients closes the Client and leaves the
\* queue unchanged; a Put when it holds fewer appends the Client to the queue,
\* closes nothing and returns.
C8_PutClosesOnlyWhenFull ==
    [][\A c \in Callers : \A s \in PoolClients : Put(c, s) =>
          IF Len(pool) >= maxConn
          THEN pool' = pool /\ connClosed' = connClosed \cup {s} /\ ~panicked'
          ELSE pool' = Append(pool, s) /\ connClosed' = connClosed /\ ~panicked']_vars

\* the same statement for the Puts on an open channel
PutContractWhileOpen ==
    [][\A c \in Callers : \A s \in PoolClients : Put(c, s) /\ ~chanClosed =>
          IF Len(pool) >= maxConn
          THEN pool' = pool /\ connClosed' = connClosed \cup {s} /\ ~panicked'
          ELSE pool' = Append(pool, s) /\ connClosed' = connClosed /\ ~panicked']_vars

\* the requested capacity, 10 standing in for a request <= 0 (line 446)
RequestedCapacity ==
    IF ctorArgs.maxConnections <= 0 THEN 10 ELSE ctorArgs.maxConnections

\* C9: construction is all-or-nothing. When the k-th NewClient fails, the k-1
\* Clients opened before are all closed, no further attempt is made and no
\* pool is returned; when all N succeed, the pool is returned with exactly N
\* distinct open Clients queued.
C9_ConstructionAllOrNothing ==
    /\ ctorPC = "failed" =>
          /\ opened < RequestedCapacity
          /\ connClosed = 1..opened
          /\ pool = <<>>
          /\ ~ENABLED CtorNext
    /\ ctorPC = "returned" =>
          /\ opened = RequestedCapacity
          /\ Len(pool) = RequestedCapacity
          /\ Range(pool) = 1..RequestedCapacity
          /\ connClosed = {}
          /\ ~chanClosed

\* the third attempt failed: the two Clients opened before are closed
C9_FailedAtThirdAttempt ==
    ctorPC = "failed" /\ opened = 2 /\ connClosed = {1, 2}

\* what a successful constructor leaves is what PoolSpec starts from
CtorReturnsConstructed ==
    ctorPC = "returned" /\ ctorArgs.timeout = 0 => Constructed(ctorArgs.maxConnections)

\* C10: Close closes every Client that is queued when it is called and leaves
\* the queue empty, and it closes no Client that a caller holds.
C10_CloseClosesTheQueuedOnly ==
    [][/\ CloseEnd => pool' = <<>> /\ Range(closeSnap) \subseteq connClosed'
       /\ CloseDrain => \A c \in Callers : held[c] \notin (connClosed' \ connClosed)]_vars

\* what the drain loop does: it closes the Clients it receives and no other
CloseClosesWhatItReceives ==
    [][/\ CloseEnd => pool' = <<>> /\ connClosed' = connClosed
       /\ CloseDrain => connClosed' = connClosed \cup {Head(pool)}
       /\ CloseBegin => connClosed' = connClosed]_vars

\* Close has run to its end
CloseCompleted == chanClosed /\ closePC = "idle"

\* C11: once Close has completed, every Get returns an error and no Client.
C11_GetAfterCloseReturnsError ==
    [][\A c \in Callers : GetReturns(c) /\ CloseCompleted =>
          res'[c] = "timeout" /\ held'[c] = NoClient]_vars

\* what does hold after Close: Get returns no Client, and a Get called after
\* Close returns no error either
GetAfterCloseReturnsNoClient ==
    [][\A c \in Callers : GetReturns(c) /\ CloseCompleted =>
          /\ held'[c] = NoClient
          /\ res'[c] \in {"nil", "timeout"}
          /\ pc[c] = "idle" => res'[c] = "nil"]_vars

(***************************************************************************)
(* Statements about sendRequest                                            *)
(***************************************************************************)
\* the goroutines between Lock and Unlock: their exchange is in flight
InFlight == {t \in Tasks : spc[t] \in {"locked", "sent", "header"}}

\* the id in the envelope the goroutine t has built
SentID(t) == Uint16At(request[t], 0)

\* C3: on one Client at most one exchange is in flight; the exchanges that
\* have started and are not in flight have all returned, in the order they
\* started, so a request is written only when every earlier exchange has
\* returned.
C3_OneExchangeInFlight ==
    /\ Cardinality(InFlight) <= 1
    /\ \A t \in Tasks : t \in InFlight <=> mutex = t
    /\ Len(started) = Len(completed) + Cardinality(InFlight)
    /\ completed = SubSeq(started, 1, Len(completed))

\* one goroutine has written its request while another waits for the mutex
C3_OneSentOneWaiting ==
    \E t, u \in Tasks : spc[t] = "sent" /\ spc[u] = "lock" /\ pending > 0

\* C4: sendRequest returns PDU data (or the exception the PDU carries) only
\* when the id it read in the header is the id it wrote in its request; when
\* it read any other id it returns the mismatch error, which carries no data.
C4_DataOnlyForMatchingID ==
    /\ returned.r.kind \in {"data", "exception"} => returned.seen = returned.sent
    /\ returned.seen # -1 /\ returned.seen # returned.sent
          => returned.r = ErrorResult("mismatch")

\* an exchange has read the id of the request before and returned the
\* mismatch error
C4_StaleIDRejected ==
    /\ returned.r = ErrorResult("mismatch")
    /\ returned.seen = (returned.sent - 1) % TwoPow16

\* C5: the counter is 1 after the first exchange on a new Client, goes up by
\* one with every exchange and wraps from 65535 to 0.
C5_CounterCountsExchangesMod65536 ==
    /\ transactionID \in 0..(TwoPow16 - 1)
    /\ transactionID = (startID + Len(started)) % TwoPow16
    /\ startID = 0 /\ Len(started) = 1 => transactionID = 1

\* a Client that began at 65534 has done two exchanges and is at 0
C5_WrappedToZero ==
    /\ startID = TwoPow16 - 2
    /\ Len(completed) = 2
    /\ transactionID = 0

\* C6, as the specification states it: the id written is the value of the
\* counter before the increment, so the counter is one past the id sent.
C6_PostIncrement ==
    [][\A t \in Tasks : SRLock(t) =>
          /\ SentID(t)' = transactionID
          /\ transactionID' = (SentID(t)' + 1) % TwoPow16]_vars

\* C6, amended: the id written is the value of the counter after the
\* increment, so after an exchange, and until the next one starts, the counter
\* equals the id sent.
C6_PreIncrement ==
    [][/\ \A t \in Tasks : SRLock(t) =>
             /\ SentID(t)' = (transactionID + 1) % TwoPow16
             /\ SentID(t)' = transactionID'
       /\ (returned'.task # NoTask /\ mutex' = NoTask)
             => transactionID' = returned'.sent]_vars

\* an exchange has returned data and the counter still holds the id it sent
C6_CounterIsLastIDSent ==
    /\ returned.r.kind = "data"
    /\ mutex = NoTask
    /\ returned.sent = transactionID
    /\ returned.sent = (startID + 1) % TwoPow16

(***************************************************************************)
(* Statements about the operations                                         *)
(***************************************************************************)
\* the quantity of a call as its caller counts it: the length of the list
LegalQuantity(o) ==
    LET q == IF o.kind \in MultiWriteKinds THEN o.values.len ELSE o.quantity
    IN  q \in 1..MaxQuantity(o.kind)

QuantityKinds == ReadKinds \cup MultiWriteKinds

InvalidQuantity(r) == r.kind = "error" /\ r.err = "invalid quantity"

\* C15: an operation with a quantity is refused with the invalid-quantity
\* error exactly when its quantity, or the length of its value list whatever
\* that is, lies outside 1..max of its kind.
C15_RejectsExactlyTheIllegal ==
    op.kind \in QuantityKinds => (InvalidQuantity(opres) <=> ~LegalQuantity(op))

\* what the checks do: they look at the length modulo 65536
QuantityCheckedAsUint16 ==
    op.kind \in QuantityKinds =>
        (InvalidQuantity(opres) <=>
            Uint16Of(IF op.kind \in MultiWriteKinds THEN op.values.len
                     ELSE op.quantity) \notin 1..MaxQuantity(op.kind))

\* C16: an operation refused for its quantity has written nothing, has not
\* taken the mutex, has not counted an exchange and has left the connection
\* as it was.
C16_RejectedTouchesNothing ==
    (opc = "returned" /\ InvalidQuantity(opres)) =>
        /\ transactionID = startID
        /\ started = <<>> /\ completed = <<>>
        /\ mutex = NoTask
        /\ pending = 0 /\ rx = <<>>
        /\ request[OpTask] = <<>> /\ args[OpTask] = NoArgs
        /\ spc[OpTask] = "idle"
        /\ returned = NoReturn

\* ReadCoils(1, 1, 2001) has been refused on a Client whose counter is 65534
C16_RejectedRead ==
    /\ opc = "returned" /\ InvalidQuantity(opres)
    /\ op.kind = "ReadCoils" /\ op.quantity = MaxReadCoils + 1
    /\ transactionID = TwoPow16 - 2

\* the buffer line 128 has filled when Read returns n bytes to the goroutine t
DataRead(t, n) == [len |-> dataLength[t], bytes |-> Take(rx, n)]

\* the ModbusError made of the first two bytes of d
ExceptionOf(d) ==
    [NoResult EXCEPT !.kind = "exception", !.fc = ByteAt(d, 0) % 128,
                     !.ec = ByteAt(d, 1)]

\* the operation hands on the ModbusError sendRequest returned, and makes an
\* error, never values, of data that begins with a byte >= 0x80
ExceptionHandedOn ==
    /\ (OpFail /\ returned.r.kind = "exception") =>
          /\ opres'.kind = "exception"
          /\ opres'.fc = returned.r.fc /\ opres'.ec = returned.r.ec
    /\ (OpDecode /\ returned.r.len >= 1 /\ ByteAt(returned.r, 0) >= 128) =>
          opres'.kind = "error"

\* C17, as the specification states it: every response PDU whose first byte
\* is >= 0x80 gives the ModbusError of its first two bytes, never values.
C17_EveryTopBitPDUIsException ==
    [][/\ \A n \in 0..Len(rx) :
             (SRReadData(OpTask, n) /\ dataLength[OpTask] >= 1
                 /\ ByteAt(DataRead(OpTask, n), 0) >= 128)
             => returned'.r = ExceptionOf(DataRead(OpTask, n))
       /\ ExceptionHandedOn]_vars

\* C17, amended: every response PDU of two bytes or more whose first byte is
\* >= 0x80 gives the ModbusError of its first two bytes; a PDU of one byte
\* >= 0x80 is returned as data and the operation makes an error of it; values
\* are never returned.
C17_TopBitPDUOfTwoBytesIsException ==
    [][/\ \A n \in 0..Len(rx) :
             (SRReadData(OpTask, n) /\ ByteAt(DataRead(OpTask, n), 0) >= 128) =>
                 /\ dataLength[OpTask] >= 2
                       => returned'.r = ExceptionOf(DataRead(OpTask, n))
                 /\ dataLength[OpTask] = 1
                       => returned'.r = DataResult(DataRead(OpTask, n))
       /\ ExceptionHandedOn]_vars

\* ReadHoldingRegisters has got 0x83 0x02 and returned function 3, exception 2
C17_IllegalAddressReported ==
    /\ opc = "returned"
    /\ op.kind = "ReadHoldingRegisters"
    /\ opres.kind = "exception" /\ opres.fc = 3 /\ opres.ec = 2

\* C18: a write returns success only when the response is the first five
\* bytes of its request: function code, address, and value or quantity.
C18_WriteSucceedsOnlyOnExactEcho ==
    (opc = "returned" /\ opres.kind = "ok"
        /\ op.kind \in SingleWriteKinds \cup MultiWriteKinds)
    => EchoAcceptedExact(op, returned.r)

\* C19: a Read that fills less than the header, or less than the PDU buffer,
\* ends the exchange with an error.
C19_ShortReadIsAnError ==
    [][\A t \in Tasks :
          /\ \A n \in 1..(HeaderLen - 1) :
                SRReadHeader(t, n) => spc'[t] = "done" /\ returned'.r.kind = "error"
          /\ \A n \in 0..Len(rx) :
                (SRReadData(t, n) /\ n < dataLength[t]) => returned'.r.kind = "error"]_vars

\* C20: a read operation that got data from sendRequest returns as many
\* values as were asked for, or an error; it never panics.
C20_ReadDecodesOrFails ==
    (op.kind \in ReadKinds /\ opc \in {"returned", "panic"}
        /\ returned.r.kind = "data")
    => \/ opres.kind = "ok" /\ Len(opres.values) = op.quantity
       \/ opres.kind = "error"

\* what holds of the register reads, whose byte count is compared with the
\* quantity
RegisterReadDecodesOrFails ==
    (op.kind \in {"ReadHoldingRegisters", "ReadInputRegisters"}
        /\ opc \in {"returned", "panic"} /\ returned.r.kind = "data")
    => \/ /\ opres.kind = "ok" /\ Len(opres.values) = op.quantity
          /\ returned.r.len = 2 + 2 * op.quantity
       \/ opres.kind = "error"

(***************************************************************************)
(* Statements about ExecuteBatch                                           *)
(***************************************************************************)
\* the items the loop has dealt with
Stored == 1..(bi - 1)

\* C12: ExecuteBatch returns one outcome for each item, at the index of the
\* item and with its kind, holding the values or the error of that item; the
\* loop goes from every item to the next whatever its outcome, so when it
\* returns every item has been attempted.
C12_OneOutcomePerItemInOrder ==
    bpc \in {"loop", "returned"} =>
        /\ Len(results) = Len(operations)
        /\ bi \in 1..(Len(operations) + 1)
        /\ bpc = "returned" => bi = Len(operations) + 1
        /\ \A i \in 1..Len(results) :
              IF i \in Stored
              THEN /\ results[i].Operation = operations[i].Operation
                   /\ results[i].outcome.kind \in {"ok", "error", "exception"}
                   /\ results[i].outcome.kind = "ok" /\ operations[i].Quantity > 0
                         => Len(results[i].outcome.values) = operations[i].Quantity
              ELSE results[i] = ZeroResult

\* a batch of two has returned: the first item failed, the second succeeded
C12_SecondItemRunsAfterFailure ==
    /\ bpc = "returned"
    /\ Len(results) = 2
    /\ results[1].outcome.kind \in {"error", "exception"}
    /\ results[2].outcome.kind = "ok"

\* an item of no kind ExecuteBatch knows, or a write with a list of the wrong
\* element type
InvalidItem(it) ==
    \/ it.Operation \notin {"read_coils", "read_holding", "read_input",
                            "write_coils", "write_registers"}
    \/ it.Operation = "write_coils" /\ it.Values.type # "bool"
    \/ it.Operation = "write_registers" /\ it.Values.type # "uint16"

\* the items among operations[1..n] that reach sendRequest
Exchanging(n) ==
    {i \in 1..n : ~InvalidItem(operations[i]) /\ ~Rejects(BatchOp(operations[i]))}

\* the last item whose method has got as far as it gets before line 85
Current == IF opc = "idle" \/ spc[OpTask] = "lock" THEN bi - 1 ELSE bi

\* C13: an invalid item gets its error in its own outcome and no exchange:
\* the exchanges started, and so the counter, are those of the other items,
\* the step that gives it its error leaves the Client as it was, and each
\* outcome is stored in the slot of its item only.
C13_InvalidItemTouchesOnlyItsOutcome ==
    [][/\ bpc' = "loop" =>
             /\ \A i \in 1..(bi' - 1) : InvalidItem(operations'[i]) =>
                    /\ results'[i].outcome.kind = "error"
                    /\ results'[i].outcome.err \in {"unknown operation", "invalid values type"}
             /\ Len(started') = Cardinality(Exchanging(Current'))
             /\ transactionID' = Len(started')
       /\ (bpc = "loop" /\ opc = "idle" /\ bi <= Len(operations)
              /\ InvalidItem(operations[bi]))
             => UNCHANGED <<sendRequestVars, spc, args, results>>
       /\ BatchStore => \A j \in 1..Len(results) : j # bi => results'[j] = results[j]]_vars

\* a batch of two has returned: the first item was a register write with a
\* list of bools, the second item did its exchange and succeeded
C13_InvalidThenValid ==
    /\ bpc = "returned"
    /\ Len(results) = 2
    /\ operations[1].Operation = "write_registers"
    /\ operations[1].Values.type = "bool"
    /\ results[1].outcome = ErrOutcome("invalid values type")
    /\ results[2].outcome.kind = "ok"
    /\ transactionID = 1

\* C14: an item of one of the eight kinds is dispatched to its operation and
\* never reported as an unknown kind.
C14_EightKindsDispatched ==
    \A i \in 1..Len(results) :
        (i \in Stored /\ operations[i].Operation \in EightKinds)
        => results[i].outcome # ErrOutcome("unknown operation")

\* what the switch does dispatch: the five kinds it has a case for
FiveKindsDispatched ==
    \A i \in 1..Len(results) :
        i \in Stored =>
            (results[i].outcome = ErrOutcome("unknown operation")
                <=> operations[i].Operation \notin BatchKinds)

(***************************************************************************)
(* Further statements about sendRequest and the operations                 *)
(***************************************************************************)
\* C21: the request is seven header bytes - the id high byte first, two zero
\* bytes, PDU length + 1 high byte first, the unit - and then the PDU as the
\* operation built it; ReadHoldingRegisters(1, 0, 5) builds 03 00 00 00 05 and
\* with id 1 the request is 00 01 00 00 00 06 01 03 00 00 00 05.
C21_EnvelopeLayout ==
    LET r == request[OpTask]
        pdu == args[OpTask].pdu
    IN  r # <<>> =>
          /\ Len(r) = HeaderLen + Len(pdu)
          /\ r[1] * 256 + r[2] = transactionID
          /\ r[3] = 0 /\ r[4] = 0
          /\ r[5] * 256 + r[6] = Len(pdu) + 1
          /\ r[7] = op.slaveID
          /\ \A i \in 1..Len(pdu) : r[HeaderLen + i] = pdu[i]
          /\ pdu = BuildPDU(op)
          /\ (op.kind = "ReadHoldingRegisters" /\ op.address = 0 /\ op.quantity = 5)
                => /\ pdu = <<3, 0, 0, 0, 5>>
                   /\ transactionID = 1
                         => r = <<0, 1, 0, 0, 0, 6, 1, 3, 0, 0, 0, 5>>

\* the request of ReadHoldingRegisters(1, 0, 5) on a new Client is written
C21_ScenarioWritten ==
    /\ spc[OpTask] = "sent"
    /\ request[OpTask] = <<0, 1, 0, 0, 0, 6, 1, 3, 0, 0, 0, 5>>

\* C22: packing an array of N coils gives ceil(N/8) bytes with coil i in byte
\* floor(i/8) at bit i mod 8 and the unused bits of the last byte zero, and
\* unpacking N coils from these bytes gives the array back; 8 coils
\* 1 0 1 0 1 0 1 0 pack to 0x55 and 3 coils 1 0 1 to 0x05.
C22_PackUnpackRoundTrip ==
    /\ cpc \in {"unpack", "done"} =>
          /\ packed.kind = "ok"
          /\ Len(packed.values) = (Len(coils) + 7) \div 8
          /\ \A j \in 1..Len(packed.values) : packed.values[j] \in 0..255
          /\ \A i \in 0..(8 * Len(packed.values) - 1) :
                (packed.values[i \div 8 + 1] \div 2 ^ (i % 8)) % 2 =
                    IF i < Len(coils) THEN coils[i + 1] ELSE 0
          /\ coils = <<1, 0, 1, 0, 1, 0, 1, 0>> => packed.values = <<85>>
          /\ coils = <<1, 0, 1>> => packed.values = <<5>>
    /\ cpc = "done" => unpacked = OkOutcome(coils)

\* 2000 alternating coils have gone through both conversions
C22_TwoThousandCoils ==
    /\ cpc = "done"
    /\ Len(coils) = 2000 /\ coils[1] = 1 /\ coils[2] = 0
    /\ Len(packed.values) = 250
    /\ unpacked = OkOutcome(coils)

\* C23: a call of an operation writes at most one request - when it writes,
\* it is in its first exchange and nothing was written before - and when
\* sendRequest fails the operation returns that error, no values, and starts
\* no further exchange.
C23_NoRetry ==
    [][/\ SRWrite(OpTask) =>
             /\ Len(started) = 1 /\ completed = <<>>
             /\ pending = 0 /\ rx = <<>>
       /\ OpFail =>
             /\ opc' = "returned"
             /\ opres' = FailedExchange(returned.r)
             /\ opres'.kind \in {"error", "exception"}
             /\ opres'.values = <<>>
             /\ spc'[OpTask] = "idle"
       /\ opc \in {"returned", "panic"} =>
             /\ started' = started
             /\ opres' = opres /\ opc' = opc /\ spc'[OpTask] = "idle"
       /\ Len(started') <= 1]_vars

\* the one request of an operation was written and never answered: the
\* operation has returned the read error
C23_TimeoutReturned ==
    /\ opc = "returned"
    /\ opres = ErrOutcome("header")
    /\ Len(started) = 1 /\ Len(completed) = 1
    /\ pending = 1

\* the calls of sendRequest that wait in Lock
Waiting == {t \in Tasks : spc[t] = "lock"}

\* C24: an exchange that has taken the mutex returns, every return (a result
\* or any of the errors) leaves the mutex unlocked, and a caller that waits
\* in Lock takes the mutex and starts its exchange.
C24_ExchangesTerminateAndUnlock ==
    /\ \A t \in Tasks : (t \in InFlight) ~> (spc[t] = "done" /\ mutex # t)
    /\ \A t \in Tasks : (t \in Waiting) ~> (t \in InFlight)
    /\ [][\A t \in Tasks :
             (t \in InFlight /\ spc'[t] = "done") =>
                 /\ mutex = t /\ mutex' = NoTask
                 /\ CanLock(mutex')]_vars

\* every caller has had its exchange, the last one after waiting for the
\* others, and the last exchange ended in a read timeout
C24_AllCallersServed ==
    /\ \A t \in Tasks : spc[t] = "done"
    /\ Len(started) = NumTasks /\ Len(completed) = NumTasks
    /\ mutex = NoTask
    /\ returned.r = ErrorResult("header")

\* C25: while no Client was released twice or from outside and Close was not
\* called, the queued Clients and the held ones are together maxConn; a Put of
\* the held Client then finds room, queues it and closes nothing; and a Put
\* that finds the queue full is a double or foreign release or follows one.
C25_QueuedPlusHeldIsCapacity ==
    /\ []((misused = 0 /\ ~chanClosed) =>
              Len(pool) + Cardinality(Holders) = maxConn)
    /\ [][\A c \in Callers : \A s \in PoolClients :
             (Put(c, s) /\ ~chanClosed) =>
                 /\ (misused = 0 /\ s = held[c]) =>
                        /\ Len(pool) < maxConn
                        /\ pool' = Append(pool, s)
                        /\ connClosed' = connClosed
                 /\ Len(pool) >= maxConn => (misused > 0 \/ s # held[c])]_vars

\* every Client was taken and all but one were put back, correctly
C25_AllTakenOnePutBack ==
    /\ misused = 0 /\ ~chanClosed /\ closePC = "idle"
    /\ maxConn = MaxConn
    /\ Len(pool) = 1
    /\ Cardinality(Holders) = maxConn - 1
    /\ \E c \in Callers : stale[c] # NoClient /\ held[c] = NoClient
    /\ connClosed = {}

\* the id the exchange before the current one carried
PreviousID == (transactionID - 1) % TwoPow16

\* C26: the counter changes when an exchange takes the mutex and at no other
\* step, whatever the outcome of the exchange; the request then built carries
\* an id different from the one of the exchange before; and a header that
\* carries the id of the exchange before (a late response) ends the exchange
\* with the mismatch error, so no result is returned for it.
C26_LateResponseRejected ==
    [][/\ \A t \in Tasks : (spc[t] = "lock" /\ spc'[t] = "locked") =>
             /\ transactionID' # transactionID
             /\ Uint16At(request'[t], 0) = transactionID'
             /\ Len(completed) >= 1 => Uint16At(request'[t], 0) # returned.sent
       /\ transactionID' # transactionID =>
             \E t \in Tasks : spc[t] = "lock" /\ spc'[t] = "locked"
       /\ \A t \in Tasks :
             (spc[t] = "sent" /\ spc'[t] # "sent" /\ connOpen
                 /\ Len(rx) >= 2 /\ Uint16At(rx, 0) = PreviousID) =>
                 /\ spc'[t] = "done"
                 /\ returned'.r = ErrorResult("mismatch")
       /\ \A t \in InFlight :
             (spc'[t] = "done" /\ returned'.r.kind \in {"data", "exception"}) =>
                 /\ returned'.seen = transactionID
                 /\ returned'.seen # PreviousID]_vars

\* the first exchange timed out, the second has sent its request under the
\* next id, and the response to the first is what has arrived
C26_LateResponseArrived ==
    /\ Len(completed) = 1
    /\ returned.r = ErrorResult("header")
    /\ Len(rx) >= HeaderLen
    /\ Uint16At(rx, 0) = returned.sent
    /\ \E t \in Tasks : spc[t] = "sent" /\ SentID(t) = NextTransactionID(returned.sent)

\* C27: a read operation that got a PDU which is not an exception response
\* returns values only if the first byte of the PDU is its own function code,
\* and returns an error if it is another one.
C27_ReadChecksFunctionCode ==
    (op.kind \in ReadKinds /\ opc = "returned" /\ returned.r.kind = "data"
        /\ returned.r.len >= 1)
    => IF ByteAt(returned.r, 0) = FuncCode(op.kind)
       THEN opres.kind \in {"ok", "error"}
       ELSE opres.kind = "error"

\* C28: every call of Put returns without a crash, also after Close was
\* called; the Client of a Put after Close is not queued.
C28_PutReturnsNormally ==
    [][\A c \in Callers : \A s \in PoolClients : Put(c, s) =>
          /\ ~panicked'
          /\ chanClosed => s \notin {pool'[i] : i \in 1..Len(pool')}]_vars

\* C29: the number of PDU bytes sendRequest reads for a header it accepted is
\* between 0 and 65534, for a length field of 0 too.
C29_DataLengthWithoutWraparound ==
    \A t \in Tasks : spc[t] = "header" => dataLength[t] \in 0..(TwoPow16 - 2)

\* how many of the exchanges in q are those of task t
CountOf(q, t) == Cardinality({i \in 1..Len(q) : q[i] = t})

\* C30: ExecuteBatch locks the Client once for each item that reaches
\* sendRequest: its exchanges are those of its items in their order, each
\* carrying the request of its item, the batch holds the mutex only inside an
\* exchange and each of its exchanges has returned before the next starts.
\* (That another goroutine can have its exchange between two items is the
\* state C30_OtherBetweenTwoItems.)
C30_OneLockPerItemInOrder ==
    /\ [](bpc = "loop" =>
             /\ CountOf(started, OpTask) = Cardinality(Exchanging(Current))
             /\ CountOf(started, OpTask) - CountOf(completed, OpTask)
                   = (IF OpTask \in InFlight THEN 1 ELSE 0)
             /\ (opc # "exchange" \/ spc[OpTask] \in {"lock", "done"})
                   => mutex # OpTask)
    /\ []((bpc = "returned") =>
             /\ CountOf(started, OpTask) = Cardinality(Exchanging(Len(operations)))
             /\ CountOf(completed, OpTask) = CountOf(started, OpTask)
             /\ mutex # OpTask)
    /\ [][SRLock(OpTask) =>
             /\ bpc = "loop" /\ bi \in Exchanging(Len(operations))
             /\ CountOf(started, OpTask) = Cardinality(Exchanging(bi - 1))
             /\ CountOf(completed, OpTask) = CountOf(started, OpTask)
             /\ Drop(request'[OpTask], HeaderLen) = BuildPDU(BatchOp(operations[bi]))
             /\ mutex = NoTask /\ mutex' = OpTask]_vars

\* a batch of two reads has returned and another goroutine had its exchange
\* after that of the first item and before that of the second
C30_OtherBetweenTwoItems ==
    /\ bpc = "returned"
    /\ Len(operations) = 2
    /\ Len(started) = 3
    /\ started[1] = OpTask /\ started[2] \in Others /\ started[3] = OpTask
    /\ completed = started
    /\ results[1].outcome.kind = "ok" /\ results[2].outcome.kind = "ok"

====
